---- MODULE Spec2Model ----
(***************************************************************************)
(* The data-loading lifecycle of the NY Scratch-Off Analyzer front end.    *)
(* Three variants of the App component exist in the repository:            *)
(*   "App"       src/frontend/src/App.js  (best_any, best_grand, history;  *)
(*               bodies parsed with Promise.all)                           *)
(*   "part_000"  src/unnamed/part_000     (best_any, recommendation;       *)
(*               bodies parsed one after the other)                        *)
(*   "part_001"  src/unnamed/part_001     (best_any, best_grand;           *)
(*               bodies parsed one after the other)                        *)
(* Every React state-setter call is one step, so that the states between   *)
(* two setter calls are states of the model.                               *)
(***************************************************************************)
EXTENDS Naturals, Sequences, FiniteSets

VARIABLES variant, pc, fetchState, issued, jsonState, jsonVal,
          data, loading, error, err

vars == <<variant, pc, fetchState, issued, jsonState, jsonVal,
          data, loading, error, err>>

\* ---------------------------------------------------------------- bounds
MaxHist == 2
MaxTs == 2

\* ------------------------------------------------------------- JS values
NULL == "<null>"

Null == [t |-> "null"]
Undefined == [t |-> "undefined"]
Arr(s) == [t |-> "array", items |-> s]
Obj(n) == [t |-> "object", name |-> n]

\* new Date(latest): a Date object whose time value is the given timestamp
NewDate(latest) == [t |-> "date", time |-> latest]

ErrorMessage == "Unable to load data. Please try again later."

\* the faults fetchData can raise
NetworkFault == "TypeError: Failed to fetch"
StatusFault == "Error: Backend request failed"
JsonFault == "SyntaxError: Unexpected token in JSON"
TypeFault == "TypeError: Cannot read properties of null"

\* ------------------------------------------------------------- variants
Variants == {"App", "part_000", "part_001"}

Endpoints(v) ==
  IF v = "App" THEN <<"best_any", "best_grand", "history">>
  ELSE IF v = "part_000" THEN <<"best_any", "recommendation">>
  ELSE <<"best_any", "best_grand">>

EndpointSet(v) == {Endpoints(v)[i] : i \in 1..Len(Endpoints(v))}

\* the state slot the i-th parsed body is stored under
Slots(v) ==
  IF v = "part_000" THEN <<"games", "best">> ELSE <<"bestAny", "bestGrand">>

\* useState initial values
InitData(v) ==
  IF v = "App"
    THEN [bestAny |-> Arr(<<>>), bestGrand |-> Arr(<<>>), lastUpdated |-> Null]
  ELSE IF v = "part_000"
    THEN [games |-> Arr(<<>>), best |-> Null]
  ELSE [bestAny |-> Arr(<<>>), bestGrand |-> Arr(<<>>)]

\* --------------------------------------------- what the remote can send
SeqsUpTo(S, n) == UNION {[1..k -> S] : k \in 0..n}

HistoryRecords == {[timestamp |-> ts] : ts \in 1..MaxTs}

GameBodies == {Arr(<<>>), Arr(<<[name |-> "g1"]>>)}

RecommendationBodies == {Obj("g1")}

HistoryBodies == {Null} \cup {Arr(s) : s \in SeqsUpTo(HistoryRecords, MaxHist)}

\* the values a body can parse to (any valid JSON document of the endpoint)
Bodies(e) ==
  IF e = "history" THEN HistoryBodies
  ELSE IF e = "recommendation" THEN RecommendationBodies
  ELSE GameBodies

\* --------------------------------------------------------------- helpers
\* a join that fulfils as soon as one promise has fulfilled
PromiseAllAny(st, E, fulfilled) ==
  IF \E e \in E : st[e] = "rejected" THEN "rejected"
  ELSE IF \E e \in E : st[e] \in fulfilled THEN "fulfilled"
  ELSE "pending"

\* Promise.all over the promises E: rejects as soon as one rejects, fulfils
\* when all have fulfilled
PromiseAll(st, E, fulfilled) ==
  IF \E e \in E : st[e] = "rejected" THEN "rejected"
  ELSE IF \A e \in E : st[e] \in fulfilled THEN "fulfilled"
  ELSE "pending"

\* a status check that looks at the first response only
AllOkFirstOnly(v) == fetchState[Endpoints(v)[1]] = "ok"

\* !anyRes.ok || !grandRes.ok || !histRes.ok  is false
AllOk(v) == \A e \in EndpointSet(v) : fetchState[e] = "ok"

\* the render branches of App
View ==
  IF loading THEN "loading"
  ELSE IF error # NULL THEN "error"
  ELSE "ready"

\* ------------------------------------------------------------------ Init
Init ==
  /\ variant \in Variants
  /\ pc = "effect"
  /\ fetchState = [e \in EndpointSet(variant) |-> "idle"]
  /\ issued = [e \in EndpointSet(variant) |-> 0]
  /\ jsonState = [e \in EndpointSet(variant) |-> "idle"]
  /\ jsonVal = [e \in EndpointSet(variant) |-> Undefined]
  /\ data = InitData(variant)
  /\ loading = TRUE
  /\ error = NULL
  /\ err = NULL

\* --------------------------------------------------------------- actions
\* useEffect runs fetchData: every fetch() of the array literal is called
\* before Promise.all is awaited
FetchData ==
  /\ pc = "effect"
  /\ issued' = [e \in EndpointSet(variant) |-> issued[e] + 1]
  /\ fetchState' = [e \in EndpointSet(variant) |-> "pending"]
  /\ pc' = "awaitFetch"
  /\ UNCHANGED <<variant, jsonState, jsonVal, data, loading, error, err>>

\* the network settles one request: a response with a success status, a
\* response with a non-success status, or a rejection (network fault)
SettleFetch(e, r) ==
  /\ fetchState[e] = "pending"
  /\ fetchState' = [fetchState EXCEPT ![e] = r]
  /\ UNCHANGED <<variant, pc, issued, jsonState, jsonVal, data, loading,
                 error, err>>

\* await Promise.all([fetch, ...]) resumes
ResumeFetch ==
  /\ pc = "awaitFetch"
  /\ PromiseAll(fetchState, EndpointSet(variant), {"ok", "notok"}) # "pending"
  /\ IF PromiseAll(fetchState, EndpointSet(variant), {"ok", "notok"}) = "rejected"
       THEN /\ err' = NetworkFault
            /\ pc' = "catch"
       ELSE /\ err' = err
            /\ pc' = "checkOk"
  /\ UNCHANGED <<variant, fetchState, issued, jsonState, jsonVal, data,
                 loading, error>>

\* if (!anyRes.ok || ...) throw new Error("Backend request failed")
CheckOk ==
  /\ pc = "checkOk"
  /\ IF AllOk(variant)
       THEN /\ err' = err
            /\ pc' = "callJson"
       ELSE /\ err' = StatusFault
            /\ pc' = "catch"
  /\ UNCHANGED <<variant, fetchState, issued, jsonState, jsonVal, data,
                 loading, error>>

\* App.js: Promise.all([anyRes.json(), grandRes.json(), histRes.json()])
CallJsonAll ==
  /\ pc = "callJson"
  /\ variant = "App"
  /\ jsonState' = [e \in EndpointSet(variant) |-> "pending"]
  /\ pc' = "awaitJson"
  /\ UNCHANGED <<variant, fetchState, issued, jsonVal, data, loading,
                 error, err>>

\* the body of one response has been read and parsed, or the parse failed
SettleJson(e, ok, body) ==
  /\ jsonState[e] = "pending"
  /\ IF ok
       THEN /\ jsonState' = [jsonState EXCEPT ![e] = "fulfilled"]
            /\ jsonVal' = [jsonVal EXCEPT ![e] = body]
       ELSE /\ jsonState' = [jsonState EXCEPT ![e] = "rejected"]
            /\ jsonVal' = jsonVal
  /\ UNCHANGED <<variant, pc, fetchState, issued, data, loading, error, err>>

\* App.js: await Promise.all([...json()]) resumes
ResumeJsonAll ==
  /\ pc = "awaitJson"
  /\ PromiseAll(jsonState, EndpointSet(variant), {"fulfilled"}) # "pending"
  /\ IF PromiseAll(jsonState, EndpointSet(variant), {"fulfilled"}) = "rejected"
       THEN /\ err' = JsonFault
            /\ pc' = "catch"
       ELSE /\ err' = err
            /\ pc' = "setFirst"
  /\ UNCHANGED <<variant, fetchState, issued, jsonState, jsonVal, data,
                 loading, error>>

\* part_000 / part_001: const gamesData = await gamesRes.json()
CallJsonFirst ==
  /\ pc = "callJson"
  /\ variant # "App"
  /\ jsonState' = [jsonState EXCEPT ![Endpoints(variant)[1]] = "pending"]
  /\ pc' = "awaitJson1"
  /\ UNCHANGED <<variant, fetchState, issued, jsonVal, data, loading,
                 error, err>>

\* part_000 / part_001: the first await resumes; on success the second
\* body is requested: const bestData = await bestRes.json()
ResumeJsonFirst ==
  /\ pc = "awaitJson1"
  /\ jsonState[Endpoints(variant)[1]] # "pending"
  /\ IF jsonState[Endpoints(variant)[1]] = "rejected"
       THEN /\ err' = JsonFault
            /\ pc' = "catch"
            /\ jsonState' = jsonState
       ELSE /\ err' = err
            /\ pc' = "awaitJson2"
            /\ jsonState' = [jsonState EXCEPT ![Endpoints(variant)[2]] = "pending"]
  /\ UNCHANGED <<variant, fetchState, issued, jsonVal, data, loading, error>>

\* part_000 / part_001: the second await resumes
ResumeJsonSecond ==
  /\ pc = "awaitJson2"
  /\ jsonState[Endpoints(variant)[2]] # "pending"
  /\ IF jsonState[Endpoints(variant)[2]] = "rejected"
       THEN /\ err' = JsonFault
            /\ pc' = "catch"
       ELSE /\ err' = err
            /\ pc' = "setFirst"
  /\ UNCHANGED <<variant, fetchState, issued, jsonState, jsonVal, data,
                 loading, error>>

\* setBestAny(anyData) / setGames(gamesData)
SetFirst ==
  /\ pc = "setFirst"
  /\ data' = [data EXCEPT ![Slots(variant)[1]] = jsonVal[Endpoints(variant)[1]]]
  /\ pc' = "setSecond"
  /\ UNCHANGED <<variant, fetchState, issued, jsonState, jsonVal, loading,
                 error, err>>

\* the second setter storing the first body
SetSecondWrongData ==
  /\ pc = "setSecond"
  /\ data' = [data EXCEPT ![Slots(variant)[2]] = jsonVal[Endpoints(variant)[1]]]
  /\ pc' = IF variant = "App" THEN "derive" ELSE "finally"
  /\ UNCHANGED <<variant, fetchState, issued, jsonState, jsonVal, loading,
                 error, err>>

\* setLoading(false) called inside the try block, after the second setter
SetSecondClearsLoading ==
  /\ pc = "setSecond"
  /\ data' = [data EXCEPT ![Slots(variant)[2]] = jsonVal[Endpoints(variant)[2]]]
  /\ loading' = FALSE
  /\ pc' = IF variant = "App" THEN "derive" ELSE "finally"
  /\ UNCHANGED <<variant, fetchState, issued, jsonState, jsonVal, error, err>>

\* setBestGrand(grandData) / setBest(bestData)
SetSecond ==
  /\ pc = "setSecond"
  /\ data' = [data EXCEPT ![Slots(variant)[2]] = jsonVal[Endpoints(variant)[2]]]
  /\ pc' = IF variant = "App" THEN "derive" ELSE "finally"
  /\ UNCHANGED <<variant, fetchState, issued, jsonState, jsonVal, loading,
                 error, err>>

\* the derivation reading historyData[0] instead of the final element
DeriveFirstElement ==
  /\ pc = "derive"
  /\ IF jsonVal["history"].t # "array"
       THEN /\ err' = TypeFault
            /\ pc' = "catch"
            /\ data' = data
       ELSE /\ err' = err
            /\ pc' = "finally"
            /\ IF Len(jsonVal["history"].items) > 0
                 THEN data' = [data EXCEPT !.lastUpdated =
                                 NewDate(jsonVal["history"].items[1].timestamp)]
                 ELSE data' = data
  /\ UNCHANGED <<variant, fetchState, issued, jsonState, jsonVal, loading,
                 error>>

\* App.js: if (historyData.length > 0) setLastUpdated(new Date(latest));
\* reading .length of null raises a TypeError
DeriveLastUpdated ==
  /\ pc = "derive"
  /\ IF jsonVal["history"].t # "array"
       THEN /\ err' = TypeFault
            /\ pc' = "catch"
            /\ data' = data
       ELSE /\ err' = err
            /\ pc' = "finally"
            /\ IF Len(jsonVal["history"].items) > 0
                 THEN data' = [data EXCEPT !.lastUpdated =
                                 NewDate(jsonVal["history"].items[
                                   Len(jsonVal["history"].items)].timestamp)]
                 ELSE data' = data
  /\ UNCHANGED <<variant, fetchState, issued, jsonState, jsonVal, loading,
                 error>>

\* a catch block that only logs
CatchNoSetError ==
  /\ pc = "catch"
  /\ pc' = "finally"
  /\ UNCHANGED <<variant, fetchState, issued, jsonState, jsonVal, data,
                 loading, error, err>>

\* a catch block after which the finalizer does not run
CatchNoFinally ==
  /\ pc = "catch"
  /\ error' = ErrorMessage
  /\ pc' = "done"
  /\ UNCHANGED <<variant, fetchState, issued, jsonState, jsonVal, data,
                 loading, err>>

\* a catch block that shows the message of the caught fault
CatchErrMessage ==
  /\ pc = "catch"
  /\ error' = err
  /\ pc' = "finally"
  /\ UNCHANGED <<variant, fetchState, issued, jsonState, jsonVal, data,
                 loading, err>>

\* a catch block that runs fetchData once more
CatchRetry ==
  /\ pc = "catch"
  /\ error' = ErrorMessage
  /\ pc' = IF \A e \in EndpointSet(variant) : issued[e] < 2
             THEN "effect" ELSE "finally"
  /\ UNCHANGED <<variant, fetchState, issued, jsonState, jsonVal, data,
                 loading, err>>

\* catch (err) { console.error(...); setError("Unable to load data. ...") }
Catch ==
  /\ pc = "catch"
  /\ error' = ErrorMessage
  /\ pc' = "finally"
  /\ UNCHANGED <<variant, fetchState, issued, jsonState, jsonVal, data,
                 loading, err>>

\* finally { setLoading(false) }
Finally ==
  /\ pc = "finally"
  /\ loading' = FALSE
  /\ pc' = "done"
  /\ UNCHANGED <<variant, fetchState, issued, jsonState, jsonVal, data,
                 error, err>>

\* the steps of fetchData itself (the event loop runs them when enabled)
Loader ==
  \/ FetchData
  \/ ResumeFetch
  \/ CheckOk
  \/ CallJsonAll
  \/ ResumeJsonAll
  \/ CallJsonFirst
  \/ ResumeJsonFirst
  \/ ResumeJsonSecond
  \/ SetFirst
  \/ SetSecond
  \/ DeriveLastUpdated
  \/ Catch
  \/ Finally

Next ==
  \/ FetchData
  \/ \E e \in EndpointSet(variant), r \in {"ok", "notok", "rejected"} :
       SettleFetch(e, r)
  \/ ResumeFetch
  \/ CheckOk
  \/ CallJsonAll
  \/ \E e \in EndpointSet(variant) :
       \E body \in Bodies(e) : SettleJson(e, TRUE, body)
  \/ \E e \in EndpointSet(variant) : SettleJson(e, FALSE, Undefined)
  \/ ResumeJsonAll
  \/ CallJsonFirst
  \/ ResumeJsonFirst
  \/ ResumeJsonSecond
  \/ SetFirst
  \/ SetSecond
  \/ DeriveLastUpdated
  \/ Catch
  \/ Finally

Spec == Init /\ [][Next]_vars

\* The event loop runs every continuation of fetchData that is ready; the
\* network is under no obligation to answer.
FairSpec == Init /\ [][Next]_vars /\ WF_vars(Loader)

\* ------------------------------------------------------ state predicates
Failed(e) == fetchState[e] \in {"notok", "rejected"}

SomeFailed == \E e \in EndpointSet(variant) : Failed(e)

AllParsed == \A e \in EndpointSet(variant) : jsonState[e] = "fulfilled"

NoPending ==
  \A e \in EndpointSet(variant) :
    fetchState[e] # "pending" /\ jsonState[e] # "pending"

FirstTwoStored ==
  /\ data[Slots(variant)[1]] = jsonVal[Endpoints(variant)[1]]
  /\ data[Slots(variant)[2]] = jsonVal[Endpoints(variant)[2]]

HistoryItems == jsonVal["history"].items

C2_FailureShowsError ==
  SomeFailed
    => /\ View # "ready"
       /\ (pc = "done" => View = "error" /\ error = ErrorMessage)

C2_Witness ==
  /\ pc = "done"
  /\ \E e \in EndpointSet(variant) : fetchState[e] = "notok"
  /\ \E e \in EndpointSet(variant) : fetchState[e] = "ok"
  /\ View = "error"

\* C3: the displayed variant is one of Loading, Error, Ready, and once it
\* is no longer Loading it never changes again.
C3_Monotonic ==
  [][/\ View' \in {"loading", "error", "ready"}
     /\ (View # "loading" => View' = View)]_vars

C3_Witness ==
  /\ pc = "done"
  /\ View = "error"
  /\ err = TypeFault

C5_EventuallyLeavesLoading == (<>[]NoPending) => <>(loading = FALSE)

C5_Witness ==
  /\ loading = FALSE
  /\ err = TypeFault
  /\ NoPending

\* C6: in App.js after a full success with a history sequence, lastUpdated
\* is the Date made from the timestamp of the final element when the
\* sequence is non-empty and is still null when it is empty; the state is
\* Ready in both cases.
C6_LastUpdatedIsFinalElement ==
  (/\ variant = "App"
   /\ pc = "done"
   /\ AllOk(variant)
   /\ AllParsed
   /\ jsonVal["history"].t = "array")
    => /\ View = "ready"
       /\ IF Len(HistoryItems) > 0
            THEN data.lastUpdated =
                   NewDate(HistoryItems[Len(HistoryItems)].timestamp)
            ELSE data.lastUpdated = Null

C6_Witness ==
  /\ variant = "App"
  /\ pc = "done"
  /\ View = "ready"
  /\ jsonVal["history"].t = "array"
  /\ Len(HistoryItems) = 2
  /\ HistoryItems[1].timestamp # HistoryItems[2].timestamp
  /\ data.lastUpdated = NewDate(HistoryItems[2].timestamp)

\* C7: the error slot only ever holds null or the one generic message, and
\* a finished load in which any fault was raised shows the Error view with
\* that message, whatever the fault was.
C7_OneGenericMessage ==
  /\ error \in {NULL, ErrorMessage}
  /\ (pc = "done" /\ err # NULL => View = "error" /\ error = ErrorMessage)

C7_Witness ==
  /\ pc = "done"
  /\ err = JsonFault
  /\ error = ErrorMessage

\* C8: requests are issued in one step for all configured endpoints, no
\* endpoint is ever requested more than once, and nothing is requested
\* after the state has left Loading or after a fault.
C8_OneBatch ==
  [][/\ \A e \in EndpointSet(variant) : issued'[e] <= 1
     /\ (issued' # issued =>
           /\ pc = "effect"
           /\ \A e \in EndpointSet(variant) :
                issued'[e] = 1 /\ fetchState'[e] = "pending")
     /\ (loading = FALSE \/ err # NULL => issued' = issued)]_vars

C8_Witness ==
  /\ pc = "done"
  /\ error # NULL
  /\ \A e \in EndpointSet(variant) : issued[e] = 1

\* C9 (as stated): whenever the error is set, every data slot still holds
\* its initial value.
C9_AsStated == error # NULL => data = InitData(variant)

\* C10: loading = false together with error = null occurs only in a
\* finished activation in which no fault was raised.
C10_ReadyOnlyOnSuccess ==
  (loading = FALSE /\ error = NULL)
    => /\ err = NULL
       /\ pc = "done"
       /\ AllOk(variant)
       /\ AllParsed

C10_Witness ==
  /\ pc = "finally"
  /\ err # NULL
  /\ error = ErrorMessage
  /\ loading = TRUE

====
